---- MODULE Spec2Model ----
(***************************************************************************)
(* QELEventGenerator: the quasi-elastic kinematics generator               *)
(* (ProcessEventRecord, the accept/reject loop) and its maximum            *)
(* cross-section estimator (ComputeMaxXSec, nucleon scan + layered grid    *)
(* search).                                                                *)
(*                                                                         *)
(* Numbers.  Cross sections are integers: 1.0 is XsOne model units, and    *)
(* every value the evaluator returns is a multiple of SFDen, so that the   *)
(* product with the safety factor fSafetyFactor / SFDen is exact.          *)
(* Differential cross sections are far below 1 in natural units, so every  *)
(* evaluator value is below XsOne.  cos(theta) and phi live on an integer  *)
(* lattice: CosOne is 1.0 and TwoPi is 2*pi; the lattice is fine enough    *)
(* for the grid steps of the first MaxLayers layers to be exact.           *)
(* The uniform deviate Rndm() is u / RndmDen.                                *)
(***************************************************************************)
EXTENDS Integers, Sequences, FiniteSets, TLC

\* ------------------------------------------------------------------ bounds
kRjMaxIterations == 2
fMaxXSecNucleonThrows == 2
MaxLayers == 3

\* ------------------------------------------------------- program constants
N_theta == 10
N_phi == 10
max_n_layers == 100
AcceptableFractionDen == 5
SFDen == 5
DefaultSafetyFactor == 8
DefaultDiffTolerance == 999999

XsOne == 1000 * SFDen
CosOne == 2 * 5^MaxLayers
TwoPi == 2 * 5^MaxLayers

Min2(a, b) == IF a < b THEN a ELSE b
Max2(a, b) == IF a > b THEN a ELSE b
Abs(a) == IF a < 0 THEN -a ELSE a

SetMax(S) == CHOOSE m \in S : \A x \in S : x <= m
SetMin(S) == CHOOSE m \in S : \A x \in S : m <= x

\* --------------------------------------------------- external collaborators
\* Nuclear model: the 3-momentum magnitude and the removal energy that
\* GenerateNucleon can leave in the model.
NucleonStates == {[p |-> 1, E |-> 1], [p |-> 2, E |-> 2]}
AtRest == [p |-> 0, E |-> 0]

\* Kinematic bounds calculator: values CosTheta0Max can return.
CosTheta0MaxVals == {-CosOne, 0, 2 * CosOne}

\* Differential cross-section evaluators (a pure, non-negative function of
\* the nucleon state and the two angles).
XSecKinds == {"zero", "flat", "hill", "spiky"}

HillCos == -CosOne + 3 * (CosOne \div 5) + 7
HillPhi == 4 * (TwoPi \div 10) + 3
SpikeCos == -CosOne + 7 * (CosOne \div 10) + 1
SpikePhi == 6 * (TwoPi \div 10) + 1
ValleyCos == (CosOne \div 2) + 1
ValleyPhi == 7 * (TwoPi \div 10) + 1

NucleonWeight(nuc) == nuc.p * (3 - nuc.E)

\* The distance in phi from the peak of an evaluator periodic in phi.
PeakPhi == TwoPi - 3
PeriodicDistance(phi) ==
    LET d == (phi - PeakPhi) % TwoPi
    IN Min2(d, TwoPi - d)

XSecShape(kind, nuc, costh, phi) ==
    CASE kind = "zero"   -> 0
      [] kind = "periodic" -> Max2(1, 40 - PeriodicDistance(phi))
      [] kind = "flat"   -> 1
      [] kind = "hill"   ->
           NucleonWeight(nuc) *
             Max2(1, 40 - (Abs(costh - HillCos) + Abs(phi - HillPhi)))
      [] kind = "spiky"  ->
           IF costh = SpikeCos /\ phi = SpikePhi THEN 20
           ELSE IF costh = ValleyCos /\ phi = ValleyPhi THEN 0
           ELSE 1

ComputeFullQELPXSec(kind, nuc, costh, phi) ==
    SFDen * XSecShape(kind, nuc, costh, phi)

\* ------------------------------------------------------------------- state
VARIABLES
    pc,              \* position of the ProcessEventRecord call
    fGenerateUniformly, fHitNucleonBindingMode, fMaxXSecDiffTolerance,
    fSafetyFactor, fMinAngleEM, fXSecModel, tgtIsNucleus, procIsEM,
    fNuclModel,      \* momentum and removal energy held by the nuclear model
    fEb,
    inuc, min_energy, max_momentum, one_nucleon_ok,
    ilayer, window, this_nuc_xsec_max, at_xsec_max, last_layer_xsec_max,
    maxXSecResult,   \* value returned by ComputeMaxXSec
    iter, xsec_max,
    interaction,     \* hit nucleon, running and locked kinematics, bits
    evrec,           \* particles added, diff. cross section, event flags
    pauliIgnoreNext, \* number of SetIgnoreNext calls
    trial,           \* what the last pass of the loop did
    count,           \* bookkeeping: calls and passes so far
    conc,            \* two calls on one generator: members and positions
    unit             \* a function exercised on its own: inputs and result

configVars == <<fGenerateUniformly, fHitNucleonBindingMode,
                fMaxXSecDiffTolerance, fSafetyFactor, fMinAngleEM,
                fXSecModel, tgtIsNucleus, procIsEM>>
phaseAVars == <<inuc, min_energy, max_momentum, one_nucleon_ok>>
phaseBVars == <<ilayer, window, this_nuc_xsec_max, at_xsec_max,
                last_layer_xsec_max>>
loopVars == <<iter, xsec_max, interaction, evrec, pauliIgnoreNext, trial,
              fEb>>
callVars == <<pc, configVars, fNuclModel, phaseAVars, phaseBVars,
              maxXSecResult, loopVars, count>>
vars == <<callVars, conc, unit>>

\* std::numeric_limits<double>::max()
DoubleMax == 1000000

BindingModes == {"UseNuclearModel", "OnShellWithCorrection"}
TrustBits == {"kISkipProcessChk", "kISkipKinematicChk", "kIAssumeFreeNucleon"}

NoWindow == [costh_range_min |-> 0, costh_range_max |-> 0,
             phi_range_min |-> 0, phi_range_max |-> 0]
NoPoint == [costh |-> 0, phi |-> 0]
None == [set |-> FALSE]

\* genie::utils::BindHitNucleon: the nucleon state the interaction holds
\* after binding in the given mode (off-shell by the removal energy of the
\* nuclear model, or on the mass shell), and the value left in Eb.
BindHitNucleon(nuc, mode) ==
    [p |-> nuc.p, E |-> IF mode = "UseNuclearModel" THEN nuc.E ELSE 0]

\* Masses of the outgoing lepton and of the recoil nucleon, the Q2 limits
\* of the phase space and the Fermi momentum of the target.
LepMass == 1
RecoilMass == 2
Q2Min == 2
Q2Max == 5
FermiMomentum == 2

\* Q2 of the uncorrected trial, as the evaluator leaves it in the
\* running kinematics.
TrialQ2(costheta) == Q2Min + 1 + ((CosOne - costheta) \div (CosOne + 1))

\* Radius of the hit nucleon, as stored in the event record.
HitNucRadius == 3

\* Interaction::Copy: initial state, process info, kinematics and exclusive
\* tag are copied into the members made by Init(); the copy constructor
\* builds a fresh TObject, so the status bits are not taken over.
Copy(in) ==
    [hitNuc |-> in.hitNuc, hitNucPos |-> in.hitNucPos, kine |-> in.kine,
     locked |-> in.locked, bits |-> {}]

\* (variant: the estimator works on the caller's object)
NewInteractionAliased(in) == [obj |-> "caller", val |-> in]

\* new Interaction(*in): the object the estimator works on, and its value.
NewInteraction(in) == [obj |-> "copy", val |-> Copy(in)]

\* The caller's Interaction after writes through the pointer w.
WrittenThrough(w, caller) == IF w.obj = "caller" THEN w.val ELSE caller

\* ---------------------------------------------------------- ComputeMaxXSec
\* (variant: the window that ends at -1 counts as usable)
UsableThrowInclusive(cos_theta0_max) == cos_theta0_max >= -CosOne

\* (variant: the removal energy of the latest usable throw is kept)
LatestEnergy(kept, thrown) == thrown

\* min_energy = std::min(min_energy, fNuclModel->RemovalEnergy())
MinEnergy(kept, thrown) == Min2(kept, thrown)

\* A throw is usable when its angular window is not degenerate.
UsableThrow(cos_theta0_max) == cos_theta0_max > -CosOne

\* Phase A, one pass of the loop over thrown nucleons.
PhaseAThrow ==
    /\ UNCHANGED <<conc, unit>>
    /\ pc = "PhaseA"
    /\ inuc < fMaxXSecNucleonThrows
    /\ \E nuc \in NucleonStates, cos_theta0_max \in CosTheta0MaxVals :
         /\ fNuclModel' = nuc
         /\ IF UsableThrow(cos_theta0_max)
            THEN /\ min_energy' = MinEnergy(min_energy, nuc.E)
                 /\ max_momentum' = Max2(max_momentum, nuc.p)
                 /\ one_nucleon_ok' = TRUE
            ELSE UNCHANGED <<min_energy, max_momentum, one_nucleon_ok>>
         /\ count' = [count EXCEPT
                !.nUsableThrows =
                    @ + (IF cos_theta0_max > -CosOne THEN 1 ELSE 0),
                !.nThrows = @ + 1,
                !.radii = @ \cup {0},
                !.usable =
                    IF cos_theta0_max > -CosOne THEN @ \cup {nuc} ELSE @,
                !.degenerate =
                    IF cos_theta0_max > -CosOne THEN @ ELSE @ \cup {nuc}]
         /\ LET w == NewInteraction(interaction)
                thrown == [w EXCEPT
                             !.val.bits = @ \cup TrustBits,
                             !.val.hitNucPos = 0,
                             !.val.hitNuc =
                                BindHitNucleon(nuc, fHitNucleonBindingMode)]
            IN interaction' = WrittenThrough(thrown, interaction)
    /\ inuc' = inuc + 1
    /\ UNCHANGED <<pc, configVars, phaseBVars, maxXSecResult, iter, xsec_max,
                   evrec, pauliIgnoreNext, trial, fEb>>

\* End of the Phase A loop: return 0 when no throw was usable, otherwise
\* fix the extremal nucleon and set up the first search window.
PhaseAEnd ==
    /\ UNCHANGED <<conc, unit>>
    /\ pc = "PhaseA"
    /\ inuc = fMaxXSecNucleonThrows
    /\ IF ~one_nucleon_ok
       THEN /\ maxXSecResult' = 0
            /\ pc' = "MaxXSec"
            /\ UNCHANGED <<fNuclModel, phaseBVars, interaction, count>>
       ELSE /\ \E cos_theta0_max \in CosTheta0MaxVals :
                 window' = [costh_range_min |-> -CosOne,
                            costh_range_max |-> Min2(CosOne, cos_theta0_max),
                            phi_range_min |-> 0,
                            phi_range_max |-> TwoPi]
            /\ fNuclModel' = [p |-> max_momentum, E |-> min_energy]
            /\ this_nuc_xsec_max' = -XsOne
            /\ at_xsec_max' = [costh |-> 0, phi |-> -(TwoPi \div 6)]
            /\ ilayer' = 0
            /\ pc' = "PhaseB"
            /\ LET w == NewInteraction(interaction)
                   marked == [w EXCEPT !.val.bits = @ \cup TrustBits]
               IN interaction' = WrittenThrough(marked, interaction)
            /\ count' = [count EXCEPT !.nLiveCopies = @ + 1,
                                       !.radii = @ \cup {0}]
            /\ UNCHANGED <<last_layer_xsec_max, maxXSecResult>>
    /\ UNCHANGED <<configVars, phaseAVars, iter, xsec_max, evrec,
                   pauliIgnoreNext, trial, fEb>>

\* The scan of one layer: itheta outer, iphi inner, strict improvement only
\* (within a row the first point of the largest value wins, if it improves).
ScanPhi(best, costh, w, phi_increment, kind_nuc) ==
    LET xs == [iphi \in 0 .. (N_phi - 1) |->
                 ComputeFullQELPXSec(kind_nuc[1], kind_nuc[2], costh,
                                     w.phi_range_min + iphi * phi_increment)]
        top == SetMax({xs[iphi] : iphi \in 0 .. (N_phi - 1)})
        first == CHOOSE iphi \in 0 .. (N_phi - 1) :
                    /\ xs[iphi] = top
                    /\ \A j \in 0 .. (iphi - 1) : xs[j] < top
    IN IF top > best.xsec
       THEN [xsec |-> top, costh |-> costh,
             phi |-> w.phi_range_min + first * phi_increment]
       ELSE best

RECURSIVE ScanGrid(_, _, _, _, _, _)
ScanGrid(itheta, best, w, costh_increment, phi_increment, kind_nuc) ==
    IF itheta = N_theta THEN best
    ELSE LET costh == w.costh_range_min + itheta * costh_increment
         IN ScanGrid(itheta + 1,
                     ScanPhi(best, costh, w, phi_increment, kind_nuc),
                     w, costh_increment, phi_increment, kind_nuc)

\* The set of values returned by the evaluator on the grid of one layer.
GridValues(w, costh_increment, phi_increment, kind, nuc) ==
    { ComputeFullQELPXSec(kind, nuc,
                          w.costh_range_min + itheta * costh_increment,
                          w.phi_range_min + iphi * phi_increment) :
        itheta \in 0 .. (N_theta - 1), iphi \in 0 .. (N_phi - 1) }

\* (this / last - 1) < acceptable_fraction * (fSafetyFactor - 1), as the
\* doubles decide it: a division by zero gives inf or NaN and the test fails.
ImprovementBelowCut(this, last) ==
    IF last = 0 THEN FALSE
    ELSE IF last > 0
         THEN AcceptableFractionDen * SFDen * (this - last)
                < (fSafetyFactor - SFDen) * last
         ELSE AcceptableFractionDen * SFDen * (this - last)
                > (fSafetyFactor - SFDen) * last

\* (variant: the next window is cut at the physical range of the angles)
NextWindowClamped(b, costh_increment, phi_increment) ==
    [costh_range_min |-> Max2(-CosOne, b.costh - costh_increment),
     costh_range_max |-> Min2(CosOne, b.costh + costh_increment),
     phi_range_min |-> Max2(0, b.phi - phi_increment),
     phi_range_max |-> Min2(TwoPi, b.phi + phi_increment)]

\* (variant: the next window is as wide as the one just scanned)
NextWindowSameWidth(b, costh_increment, phi_increment) ==
    [costh_range_min |-> b.costh - (N_theta \div 2) * costh_increment,
     costh_range_max |-> b.costh + (N_theta \div 2) * costh_increment,
     phi_range_min |-> b.phi - (N_phi \div 2) * phi_increment,
     phi_range_max |-> b.phi + (N_phi \div 2) * phi_increment]

\* Calculate the range for the next layer: one step of the layer just
\* scanned on either side of the point of the maximum.
NextWindow(b, costh_increment, phi_increment) ==
    [costh_range_min |-> b.costh - costh_increment,
     costh_range_max |-> b.costh + costh_increment,
     phi_range_min |-> b.phi - phi_increment,
     phi_range_max |-> b.phi + phi_increment]

\* (variant: the first layer may end the search too)
LayerStopWithoutPredecessor(layer, this, last) ==
    ImprovementBelowCut(this, last)

\* if (ilayer && (improvement_factor-1) < ...) break;
LayerStop(layer, this, last) ==
    layer > 0 /\ ImprovementBelowCut(this, last)

\* An evaluator that returns the same value at every point of a window:
\* its grid maximum does not depend on where the grid points lie, so its
\* layers are followed below the resolution of the lattice.
PositionIndependent(kind) == kind \in {"zero", "flat"}

\* (variant: the safety factor is left out)
NoSafetyFactor(x) == x

\* xsec_max *= fSafetyFactor
ApplySafetyFactor(x) == (x * fSafetyFactor) \div SFDen

\* Phase B, one layer of the grid search, with the loop exit and the return
\* when it is the last layer.
PhaseBLayer ==
    /\ UNCHANGED <<conc, unit>>
    /\ pc = "PhaseB"
    /\ ilayer < max_n_layers
    /\ ilayer < MaxLayers \/ PositionIndependent(fXSecModel)
    /\ LET w == window
           nuc == BindHitNucleon(fNuclModel, fHitNucleonBindingMode)
           costh_increment == (w.costh_range_max - w.costh_range_min) \div N_theta
           phi_increment == (w.phi_range_max - w.phi_range_min) \div N_phi
           start == [xsec |-> this_nuc_xsec_max,
                     costh |-> at_xsec_max.costh, phi |-> at_xsec_max.phi]
           best == ScanGrid(0, start, w, costh_increment, phi_increment,
                            <<fXSecModel, nuc>>)
           stop == \/ LayerStop(ilayer, best.xsec, this_nuc_xsec_max)
                   \/ ilayer + 1 = max_n_layers
           xsec_max_B == IF best.xsec > -XsOne THEN best.xsec ELSE -XsOne
       IN /\ last_layer_xsec_max' = this_nuc_xsec_max
          /\ this_nuc_xsec_max' = best.xsec
          /\ at_xsec_max' = [costh |-> best.costh, phi |-> best.phi]
          /\ window' = NextWindow([costh |-> best.costh, phi |-> best.phi],
                                  costh_increment, phi_increment)
          /\ count' = [count EXCEPT
                 !.gridMax = Max2(@, SetMax(GridValues(w, costh_increment,
                                        phi_increment, fXSecModel, nuc))),
                 !.nPhaseBEvals = @ + N_theta * N_phi,
                 !.nLayers = @ + 1,
                 !.nLiveCopies = IF stop THEN @ - 1 ELSE @]
          /\ LET private == NewInteraction(interaction)
                 scanned == [private EXCEPT
                    !.val.bits = @ \cup TrustBits,
                    !.val.hitNuc = nuc,
                    !.val.kine = [running |-> TRUE,
                                  Q2 |-> TrialQ2(w.costh_range_min
                                      + (N_theta - 1) * costh_increment),
                                  FSLeptonP4 |-> "uncorrected",
                                  HadSystP4 |-> "uncorrected"]]
             IN interaction' = WrittenThrough(scanned, interaction)
          /\ fEb' = nuc.E
          /\ IF stop
             THEN /\ maxXSecResult' = ApplySafetyFactor(xsec_max_B)
                  /\ pc' = "MaxXSec"
                  /\ ilayer' = ilayer
             ELSE /\ ilayer' = ilayer + 1
                  /\ UNCHANGED <<maxXSecResult, pc>>
    /\ UNCHANGED <<configVars, fNuclModel, phaseAVars, iter, xsec_max, evrec,
                   pauliIgnoreNext, trial>>

\* ------------------------------------------------ KineGeneratorWithCache
\* MaxXSec: hand the computed maximum to the caller, or give up on the
\* event when it is not positive.
MaxXSecReturn ==
    /\ UNCHANGED <<conc, unit>>
    /\ pc = "MaxXSec"
    /\ IF maxXSecResult > 0
       THEN /\ xsec_max' = maxXSecResult
            /\ interaction' = [interaction EXCEPT !.hitNucPos = HitNucRadius]
            /\ pc' = "Loop"
       ELSE /\ pc' = "MaxXSecFailure"
            /\ UNCHANGED <<xsec_max, interaction>>
    /\ inuc' = 0
    /\ min_energy' = DoubleMax
    /\ max_momentum' = -DoubleMax
    /\ one_nucleon_ok' = FALSE
    /\ ilayer' = 0
    /\ window' = NoWindow
    /\ this_nuc_xsec_max' = -XsOne
    /\ at_xsec_max' = NoPoint
    /\ last_layer_xsec_max' = -XsOne
    /\ count' = [count EXCEPT !.nUsableThrows = 0, !.nPhaseBEvals = 0,
                               !.nThrows = 0, !.radii = {},
                               !.usable = {}, !.degenerate = {},
                               !.nLayers = 0, !.gridMax = -1]
    /\ UNCHANGED <<configVars, fNuclModel, maxXSecResult, iter, evrec,
                   pauliIgnoreNext, trial, fEb>>

\* AssertXSecLimits: the fractional deviation 200 (xsec - max) / (max + xsec)
\* of a value above the maximum is beyond the tolerance.
XSecLimitsExceeded(xsec, max, tolerance) ==
    /\ xsec > max
    /\ LET num == 200 * (xsec - max)
           den == max + xsec
       IN IF den = 0 THEN TRUE
          ELSE IF den < 0 THEN FALSE
          ELSE \/ num \div den > tolerance
               \/ (num \div den = tolerance /\ num % den > 0)

\* ------------------------------------------------------ ProcessEventRecord
\* Inputs of the binding-energy correction: centre-of-mass energy of the
\* probe and the bound nucleon, rounding of outLeptonEnergy^2 - lepMass^2,
\* lab angle of the corrected lepton (degrees), corrected Q2, corrected and
\* uncorrected recoil momenta.
SqrtSVals == {LepMass + RecoilMass - 1, LepMass + RecoilMass}
RoundingVals == {-1, 0}
LeptonThetaVals == {0, 2, 5}
CorrectedQ2Vals == {Q2Min - 1, Q2Min, Q2Max, Q2Max + 1}
RecoilMomentumVals == {FermiMomentum - 1, FermiMomentum}

\* Angles the sampler can draw in the window [-1, cos_theta0_max].
\* Uniform(-1, b) is -1 + (b + 1) * Rndm(): a window without width gives
\* its edge.
AngleDraws(cos_theta0_max) ==
    IF cos_theta0_max <= -CosOne
    THEN {<<cos_theta0_max, SpikePhi>>}
    ELSE {a \in {<<SpikeCos, SpikePhi>>, <<ValleyCos, ValleyPhi>>} :
            a[1] <= cos_theta0_max}

NoCorr == [sqrtS |-> 0, dE2 |-> 0, theta |-> 0, Q2 |-> 0,
           pNfCorrected |-> 0, pNfUncorrected |-> 0, failed |-> "none"]
NoTrial == [pass |-> 0, outcome |-> "none", cos_theta0_max |-> 0,
            costheta |-> 0, phi |-> 0,
            evaluated |-> FALSE, xsec |-> 0, u |-> 0, bound |-> 0,
            accept |-> FALSE, corrected |-> FALSE, corr |-> NoCorr]

\* (variant: a positive maximum in uniform generation)
UniformXSecMaxPositive == XsOne

\* xsec_max when the kinematics are generated uniformly
UniformXSecMax == -XsOne

\* (variant: the cap is hit one pass early)
IterationCapReached(i) == i >= kRjMaxIterations

\* iter > kRjMaxIterations
IterationCapExceeded(i) == i > kRjMaxIterations

\* (variant: only a window below -1 is skipped)
DegenerateWindowStrict(cos_theta0_max) == cos_theta0_max < -CosOne

\* cos_theta0_max <= -1.
DegenerateWindow(cos_theta0_max) == cos_theta0_max <= -CosOne

\* Rndm(): the deviates u / RndmDen
RndmDen == 2
RndmVals == 0 .. (RndmDen - 1)

\* (variant: a cross section equal to the threshold is accepted)
AcceptOrEqual(max, u, xsec) == max * u <= xsec * RndmDen

\* accept = (t < xsec), with t = xsec_max * Rndm()
Accept(max, u, xsec) == max * u < xsec * RndmDen

\* (variant: the maximum follows a larger cross section)
XSecMaxRaised(max, xsec) == IF xsec > max THEN xsec ELSE max

\* xsec_max is a local that no pass of the loop assigns.
XSecMaxAfterTrial(max, xsec) == max

\* (variant: the limits of the Q2 range are excluded)
Q2OutOfRangeClosed(Q2) == Q2 <= Q2Min \/ Q2 >= Q2Max

\* Q2 < Q2lim.min || Q2 > Q2lim.max
Q2OutOfRange(Q2) == Q2 < Q2Min \/ Q2 > Q2Max

\* sqrt(s) < lepMass + mNf
BelowThreshold(sqrtS) == sqrtS < LepMass + RecoilMass

\* outLeptonEnergy^2 - lepMass^2 (times 4 s), with the rounding of doubles
LeptonMomentumSquared(sqrtS, rounding) ==
    LET s == sqrtS * sqrtS
        twoSqrtSE == s - RecoilMass * RecoilMass + LepMass * LepMass
    IN twoSqrtSE * twoSqrtSE - 4 * s * LepMass * LepMass + rounding

\* (variant: the low-angle cut applies to every process)
LowAngleAnyProcess(theta, minAngle, isEM) == theta < minAngle

\* (variant: the low-angle cut is not applied)
LowAngleEMNever(theta, minAngle, isEM) == FALSE

\* 180 * lepton.Theta() / kPi < fMinAngleEM && IsEM()
LowAngleEM(theta, minAngle, isEM) == theta < minAngle /\ isEM

\* (variant: the override is set whenever the corrected recoil is blocked)
IgnoreNextPauliBlockedOnly(pNfCorrected, pNfUncorrected) ==
    pNfCorrected < FermiMomentum

\* outNucleon.P() < kF && pNf_uncorrected >= kF
IgnoreNextPauli(pNfCorrected, pNfUncorrected) ==
    pNfCorrected < FermiMomentum /\ pNfUncorrected >= FermiMomentum

\* What the correction pass decides for one accepted candidate.
CorrectionFailure(c, minAngle, isEM) ==
    IF BelowThreshold(c.sqrtS) THEN "threshold"
    ELSE IF LeptonMomentumSquared(c.sqrtS, c.dE2) < 0 THEN "momentum"
    ELSE IF LowAngleEM(c.theta, minAngle, isEM) THEN "angle"
    ELSE IF Q2OutOfRange(c.Q2) THEN "Q2"
    ELSE "none"

\* The candidates of the correction: the inputs it looks at, in the order
\* of its checks, up to the check that discards the candidate.
CorrCandidates(minAngle, isEM) ==
    LET seen(c) == [c EXCEPT !.failed = CorrectionFailure(c, minAngle, isEM)]
        aboveThr == {x \in SqrtSVals : ~BelowThreshold(x)}
        momOk == {sr \in aboveThr \X RoundingVals :
                    LeptonMomentumSquared(sr[1], sr[2]) >= 0}
        angOk == {x \in LeptonThetaVals : ~LowAngleEM(x, minAngle, isEM)}
    IN  { seen([NoCorr EXCEPT !.sqrtS = s]) : s \in SqrtSVals \ aboveThr }
        \cup
        { seen([NoCorr EXCEPT !.sqrtS = sr[1], !.dE2 = sr[2]]) :
            sr \in (aboveThr \X RoundingVals) \ momOk }
        \cup
        { seen([NoCorr EXCEPT !.sqrtS = sr[1], !.dE2 = sr[2], !.theta = th]) :
            sr \in momOk, th \in LeptonThetaVals \ angOk }
        \cup
        { seen([NoCorr EXCEPT !.sqrtS = sr[1], !.dE2 = sr[2], !.theta = th,
                              !.Q2 = q]) :
            sr \in momOk, th \in angOk,
            q \in {x \in CorrectedQ2Vals : Q2OutOfRange(x)} }
        \cup
        { seen([NoCorr EXCEPT !.sqrtS = sr[1], !.dE2 = sr[2], !.theta = th,
                              !.Q2 = q, !.pNfCorrected = pb,
                              !.pNfUncorrected = pu]) :
            sr \in momOk, th \in angOk,
            q \in {x \in CorrectedQ2Vals : ~Q2OutOfRange(x)},
            pb \in RecoilMomentumVals, pu \in RecoilMomentumVals }

\* (variant: a nucleon is sampled for every target)
NucleonSampledAlways(isNucleus, sampled) == sampled

\* The nucleon the nuclear model holds in a pass of the loop: sampled by
\* GenerateNucleon for a nucleus, at rest and unbound otherwise.
LoopNucleon(isNucleus, sampled) == IF isNucleus THEN sampled ELSE AtRest

\* Entry of the call up to the loop: trust bits, and the maximum cross
\* section unless the kinematics are generated uniformly.
ProcessEventRecordBegin ==
    /\ UNCHANGED <<conc, unit>>
    /\ pc = "Start"
    /\ interaction' =
         [interaction EXCEPT !.bits = @ \cup TrustBits,
                             !.hitNucPos = IF fGenerateUniformly
                                           THEN HitNucRadius ELSE @]
    /\ IF fGenerateUniformly
       THEN /\ xsec_max' = UniformXSecMax
            /\ pc' = "Loop"
            /\ UNCHANGED count
       ELSE /\ pc' = "PhaseA"
            /\ count' = [count EXCEPT !.nMaxXSec = @ + 1]
            /\ UNCHANGED xsec_max
    /\ UNCHANGED <<configVars, fNuclModel, phaseAVars, phaseBVars,
                   maxXSecResult, iter, evrec, pauliIgnoreNext, trial, fEb>>

\* SetQ2(gQ2, true), SetW(gW, true), Setx(gx, true), Sety(gy, true): each
\* call locks one variable; the running values are as they were.
LockSelected(ia, gQ2, gW) ==
    [ia EXCEPT !.locked = [set |-> TRUE, Q2 |-> gQ2, W |-> gW,
                           x |-> TRUE, y |-> TRUE, n |-> @.n + 1,
                           runningAtLock |-> ia.kine.running,
                           bitsAtLock |-> ia.bits]]

\* (variant: the running values are kept)
KeepRunningValues(ia) == ia

\* Kinematics::ClearRunningValues
ClearRunningValues(ia) == [ia EXCEPT !.kine.Q2 = 0, !.kine.running = FALSE]

\* (variant: the running values are cleared first)
ClearThenLock(ia, gQ2, gW) == LockSelected(ClearRunningValues(ia), gQ2, gW)

\* lock selected kinematics & clear running values
LockKinematics(ia, gQ2, gW) == ClearRunningValues(LockSelected(ia, gQ2, gW))

\* (variant: the trust bits stay set)
KeepTrustBits(ia) == ia

\* ResetBit(kISkipProcessChk), ResetBit(kISkipKinematicChk),
\* ResetBit(kIAssumeFreeNucleon)
ResetTrustBits(ia) == [ia EXCEPT !.bits = @ \ TrustBits]

\* (variant: the recoil nucleon is a stable final state for every target)
RecoilStatusStable(isNucleus) == "kIStStableFinalState"

\* ist = (tgt->IsNucleus()) ? kIStHadronInTheNucleus : kIStStableFinalState
RecoilStatus(isNucleus) ==
    IF isNucleus THEN "kIStHadronInTheNucleus" ELSE "kIStStableFinalState"

\* Lock the selected kinematics, record the cross section and add the
\* particles (the part of the pass after the correction).
Commit(ia, xsec, Eb) ==
    LET gQ2 == ia.kine.Q2
        gW == RecoilMass
        lepton == [pdg |-> "FSPrimLepton", status |-> "kIStStableFinalState",
                   mother |-> "Probe", p4 |-> ia.kine.FSLeptonP4]
        nucleon == [pdg |-> "RecoilNucleon",
                    status |-> RecoilStatus(tgtIsNucleus),
                    mother |-> "HitNucleon", p4 |-> ia.kine.HadSystP4]
        remnant == [pdg |-> "Remnant", status |-> "kIStStableFinalState",
                    mother |-> "TargetNucleus", p4 |-> "remnant"]
    IN /\ interaction' =
            LockKinematics(ResetTrustBits(ia), gQ2, gW)
       /\ evrec' = [evrec EXCEPT
             !.diffXSec = [set |-> TRUE, xsec |-> xsec, ps |-> "kPSQELEvGen"],
             !.particles = @ \o <<lepton, nucleon>>
                             \o (IF tgtIsNucleus THEN <<remnant>> ELSE <<>>),
             !.hitNucleon = [set |-> TRUE, p4 |-> ia.hitNuc,
                             removalEnergy |-> Eb]]

\* One pass of the accept/reject loop.
LoopPass ==
    /\ UNCHANGED <<conc, unit>>
    /\ pc = "Loop"
    /\ iter' = iter + 1
    /\ IF IterationCapExceeded(iter + 1)
       THEN /\ evrec' = [evrec EXCEPT !.kKineGenErr = TRUE]
            /\ pc' = "IterCapFailure"
            /\ UNCHANGED <<fNuclModel, fEb, xsec_max, interaction,
                           pauliIgnoreNext, trial, count>>
       ELSE \E sampled \in NucleonStates, ctm \in CosTheta0MaxVals :
         LET nuc == LoopNucleon(tgtIsNucleus, sampled)
             hitNuc == BindHitNucleon(nuc, fHitNucleonBindingMode)
             Eb == hitNuc.E
             cos_theta0_max == Min2(CosOne, ctm)
             t0 == [NoTrial EXCEPT !.pass = iter + 1,
                                   !.cos_theta0_max = cos_theta0_max]
             c0 == [count EXCEPT !.nPasses = @ + 1,
                                 !.nGenerateNucleon =
                                    @ + (IF tgtIsNucleus THEN 1 ELSE 0),
                                 !.radii = IF tgtIsNucleus
                                           THEN @ \cup {HitNucRadius}
                                           ELSE @]
             ia0 == [interaction EXCEPT !.hitNuc = hitNuc]
         IN
         /\ fNuclModel' = nuc
         /\ IF DegenerateWindow(cos_theta0_max)
            THEN /\ trial' = [t0 EXCEPT !.outcome = "skipped"]
                 /\ count' = [c0 EXCEPT !.nSkipped = @ + 1]
                 /\ interaction' = ia0
                 /\ fEb' = Eb
                 /\ UNCHANGED <<pc, xsec_max, evrec, pauliIgnoreNext>>
            ELSE \E angles \in AngleDraws(cos_theta0_max),
                    u \in RndmVals :
              LET costheta == angles[1]
                  phi == angles[2]
                  xsec == ComputeFullQELPXSec(fXSecModel, hitNuc,
                                              costheta, phi)
                  accept == Accept(xsec_max, u, xsec)
                  t1 == [t0 EXCEPT !.evaluated = TRUE, !.xsec = xsec,
                                   !.costheta = costheta, !.phi = phi,
                                   !.u = u, !.bound = xsec_max]
                  c1 == [c0 EXCEPT !.nXSecEvals = @ + 1]
                  ia1 == [ia0 EXCEPT !.kine =
                            [running |-> TRUE, Q2 |-> TrialQ2(costheta),
                             FSLeptonP4 |-> "uncorrected",
                             HadSystP4 |-> "uncorrected"]]
              IN
              /\ xsec_max' = XSecMaxAfterTrial(xsec_max, xsec)
              /\ IF XSecLimitsExceeded(xsec, xsec_max, fMaxXSecDiffTolerance)
                 THEN /\ trial' = [t1 EXCEPT !.outcome = "fatal"]
                      /\ count' = c1
                      /\ interaction' = ia1
                      /\ fEb' = Eb
                      /\ pc' = "Fatal"
                      /\ UNCHANGED <<evrec, pauliIgnoreNext>>
                 ELSE IF ~accept
                 THEN /\ trial' = [t1 EXCEPT !.outcome = "rejected"]
                      /\ count' = c1
                      /\ interaction' = ia1
                      /\ fEb' = Eb
                      /\ UNCHANGED <<pc, evrec, pauliIgnoreNext>>
                 ELSE IF tgtIsNucleus /\
                         fHitNucleonBindingMode = "OnShellWithCorrection"
                 THEN \E c \in CorrCandidates(fMinAngleEM, procIsEM) :
                   LET failed == c.failed
                       seen == c
                       rebound == BindHitNucleon(nuc, "UseNuclearModel")
                       ia2 == [ia1 EXCEPT !.hitNuc = rebound]
                       t2 == [t1 EXCEPT !.accept = TRUE, !.corrected = TRUE,
                                        !.corr = seen]
                   IN
                   /\ fEb' = rebound.E
                   /\ IF failed # "none"
                      THEN /\ trial' = [t2 EXCEPT !.outcome = "discarded"]
                           /\ count' = c1
                           /\ interaction' = ia2
                           /\ UNCHANGED <<pc, evrec, pauliIgnoreNext>>
                      ELSE /\ trial' = [t2 EXCEPT !.outcome = "accepted"]
                           /\ count' = c1
                           /\ pauliIgnoreNext' = pauliIgnoreNext +
                                (IF IgnoreNextPauli(c.pNfCorrected,
                                                    c.pNfUncorrected)
                                 THEN 1 ELSE 0)
                           /\ Commit([ia2 EXCEPT !.kine =
                                        [running |-> TRUE, Q2 |-> c.Q2,
                                         FSLeptonP4 |-> "corrected",
                                         HadSystP4 |-> "corrected"]], xsec,
                                     rebound.E)
                           /\ pc' = "Done"
                 ELSE /\ trial' = [t1 EXCEPT !.accept = TRUE,
                                             !.outcome = "accepted"]
                      /\ count' = c1
                      /\ fEb' = Eb
                      /\ Commit(ia1, xsec, Eb)
                      /\ pc' = "Done"
                      /\ UNCHANGED pauliIgnoreNext
    /\ UNCHANGED <<configVars, phaseAVars, phaseBVars, maxXSecResult>>

\* Configurations of the generator and of the interaction.  A parameter
\* that a call does not read takes its default only: the safety factor
\* when the kinematics are generated uniformly, the binding mode for a free
\* nucleon, the minimum angle and the process type when no correction runs.
\* With the maximum at -1 the fractional deviation of a cross section below
\* 1 is negative, so the tolerance decides nothing in uniform generation.
SafetyFactors(uniform) ==
    IF uniform THEN {DefaultSafetyFactor} ELSE {DefaultSafetyFactor, 10}
DiffTolerances(uniform) ==
    IF uniform THEN {DefaultDiffTolerance} ELSE {0, DefaultDiffTolerance}
TargetConfigs ==
    { <<FALSE, "UseNuclearModel", 0, FALSE>>,
      <<TRUE, "UseNuclearModel", 0, FALSE>>,
      <<TRUE, "OnShellWithCorrection", 0, TRUE>>,
      <<TRUE, "OnShellWithCorrection", 5, TRUE>>,
      <<TRUE, "OnShellWithCorrection", 5, FALSE>> }

NoKine == [running |-> FALSE, Q2 |-> 0, FSLeptonP4 |-> "none",
           HadSystP4 |-> "none"]

\* No concurrent calls: the members seen by the single call are the
\* variables above.
ConcIdle == [on |-> FALSE]

\* No function is exercised on its own.
UnitIdle == [at |-> "idle"]

\* The generator after LoadConfig and the event before the call.
GeneratorInitFor(kinds) ==
    /\ pc = "Start"
    /\ fGenerateUniformly \in BOOLEAN
    /\ fMaxXSecDiffTolerance \in DiffTolerances(fGenerateUniformly)
    /\ fSafetyFactor \in SafetyFactors(fGenerateUniformly)
    /\ fXSecModel \in kinds
    /\ \E t \in TargetConfigs :
         /\ tgtIsNucleus = t[1]
         /\ fHitNucleonBindingMode = t[2]
         /\ fMinAngleEM = t[3]
         /\ procIsEM = t[4]
    /\ fNuclModel = AtRest
    /\ fEb = 0
    /\ inuc = 0
    /\ min_energy = DoubleMax
    /\ max_momentum = -DoubleMax
    /\ one_nucleon_ok = FALSE
    /\ ilayer = 0
    /\ window = NoWindow
    /\ this_nuc_xsec_max = -XsOne
    /\ at_xsec_max = NoPoint
    /\ last_layer_xsec_max = -XsOne
    /\ maxXSecResult = -XsOne
    /\ iter = 0
    /\ xsec_max = -XsOne
    /\ interaction = [hitNuc |-> AtRest, hitNucPos |-> HitNucRadius,
                      kine |-> NoKine,
                      locked |-> [set |-> FALSE, Q2 |-> 0, W |-> 0,
                                  x |-> FALSE, y |-> FALSE, n |-> 0,
                                  runningAtLock |-> FALSE,
                                  bitsAtLock |-> {}],
                      bits |-> {}]
    /\ evrec = [particles |-> <<>>,
                diffXSec |-> [set |-> FALSE, xsec |-> 0, ps |-> "kPSNull"],
                kKineGenErr |-> FALSE,
                hitNucleon |-> [set |-> FALSE, p4 |-> AtRest,
                                removalEnergy |-> 0]]
    /\ pauliIgnoreNext = 0
    /\ trial = NoTrial
    /\ count = [nMaxXSec |-> 0, nUsableThrows |-> 0, nPhaseBEvals |-> 0,
                nThrows |-> 0, radii |-> {}, usable |-> {},
                degenerate |-> {},
                nLayers |-> 0, gridMax |-> -1, nLiveCopies |-> 0,
                nGenerateNucleon |-> 0,
                nPasses |-> 0, nXSecEvals |-> 0, nSkipped |-> 0]

GeneratorInit == GeneratorInitFor(XSecKinds)

Init == GeneratorInit /\ conc = ConcIdle /\ unit = UnitIdle

Next ==
    \/ ProcessEventRecordBegin
    \/ PhaseAThrow
    \/ PhaseAEnd
    \/ PhaseBLayer
    \/ MaxXSecReturn
    \/ LoopPass

Spec == Init /\ [][Next]_vars

\* ------------------------------------------- two calls on one generator
\* Two ProcessEventRecord calls on the same QELEventGenerator object, each
\* on its own event record and Interaction.  The generator's members
\* fXSecModel and fEb and the current nucleon of the nuclear model *fNuclModel
\* are one per generator; every access to them is a step of its own.
Calls == {1, 2}

\* evg->CrossSectionAlg() of the thread that runs call c
ThreadXSecModel(c) == c

NoCall == [pc |-> "SetModel", iter |-> 0, sampled |-> AtRest,
           hitNuc |-> AtRest, usedModel |-> 0, storedEb |-> 0]

ConcStart == [on |-> TRUE, fXSecModel |-> 0, nucl |-> AtRest, fEb |-> 0,
              call |-> [c \in Calls |-> NoCall]]

\* fXSecModel = evg->CrossSectionAlg()
CallSetXSecModel(c) ==
    /\ conc.on
    /\ conc.call[c].pc = "SetModel"
    /\ conc' = [conc EXCEPT !.fXSecModel = ThreadXSecModel(c),
                            !.call[c].pc = "Generate"]
    /\ UNCHANGED <<callVars, unit>>

\* Top of a pass: the cap, then fNuclModel->GenerateNucleon(*tgt, hitNucPos)
CallGenerateNucleon(c) ==
    /\ conc.on
    /\ conc.call[c].pc = "Generate"
    /\ IF IterationCapExceeded(conc.call[c].iter + 1)
       THEN conc' = [conc EXCEPT !.call[c].pc = "Failed",
                                 !.call[c].iter = @ + 1]
       ELSE \E nuc \in NucleonStates :
              conc' = [conc EXCEPT !.nucl = nuc,
                                   !.call[c].sampled = nuc,
                                   !.call[c].iter = @ + 1,
                                   !.call[c].pc = "Bind"]
    /\ UNCHANGED <<callVars, unit>>

\* BindHitNucleon(*interaction, *fNuclModel, fEb, fHitNucleonBindingMode)
CallBindHitNucleon(c) ==
    /\ conc.on
    /\ conc.call[c].pc = "Bind"
    /\ LET hitNuc == BindHitNucleon(conc.nucl, fHitNucleonBindingMode)
       IN conc' = [conc EXCEPT !.fEb = hitNuc.E,
                               !.call[c].hitNuc = hitNuc,
                               !.call[c].pc = "Evaluate"]
    /\ UNCHANGED <<callVars, unit>>

\* ComputeFullQELPXSec(interaction, fNuclModel, fXSecModel, ...) and the
\* threshold test; the cross section and the deviate decide accept.
CallEvaluate(c) ==
    /\ conc.on
    /\ conc.call[c].pc = "Evaluate"
    /\ \E accept \in BOOLEAN :
         conc' = [conc EXCEPT !.call[c].usedModel = conc.fXSecModel,
                              !.call[c].pc = IF accept THEN "Store"
                                             ELSE "Generate"]
    /\ UNCHANGED <<callVars, unit>>

\* nucleon->SetMomentum(p4ptr); nucleon->SetRemovalEnergy(fEb)
CallStore(c) ==
    /\ conc.on
    /\ conc.call[c].pc = "Store"
    /\ conc' = [conc EXCEPT !.call[c].storedEb = conc.fEb,
                            !.call[c].pc = "Done"]
    /\ UNCHANGED <<callVars, unit>>

InitConc ==
    /\ GeneratorInit
    /\ fGenerateUniformly
    /\ fXSecModel = "spiky"
    /\ tgtIsNucleus
    /\ fHitNucleonBindingMode = "UseNuclearModel"
    /\ conc = ConcStart
    /\ unit = UnitIdle

NextConc ==
    \E c \in Calls :
        \/ CallSetXSecModel(c)
        \/ CallGenerateNucleon(c)
        \/ CallBindHitNucleon(c)
        \/ CallEvaluate(c)
        \/ CallStore(c)

SpecConc == InitConc /\ [][NextConc]_vars

\* A call in rejection mode with an evaluator that peaks just below
\* phi = 2 pi, that is just below 0.
InitPeriodic ==
    /\ GeneratorInitFor({"periodic"})
    /\ ~fGenerateUniformly
    /\ conc = ConcIdle
    /\ unit = UnitIdle

SpecPeriodic == InitPeriodic /\ [][Next]_vars

\* ------------------------------------- the hadronic invariant mass W
\* PDG codes of the struck nucleons and of the hadrons an exclusive tag can
\* name; 0 is the code of no particle.
Nucleons == {2212, 2112}
CharmHadrons == {4122, 4222}
StrangeHadrons == {3122, 3112}

\* PDGLibrary::Instance()->Find(pdgc)->Mass(), in MeV.
PdgMass(pdgc) ==
    CASE pdgc = 2212 -> 938
      [] pdgc = 2112 -> 940
      [] pdgc = 4122 -> 2286
      [] pdgc = 4222 -> 2454
      [] pdgc = 3122 -> 1116
      [] pdgc = 3112 -> 1197

\* pdg::SwitchProtonNeutron
SwitchProtonNeutron(pdgc) == IF pdgc = 2212 THEN 2112 ELSE 2212

\* Interaction::RecoilNucleonPdg: the code, and whether its assertion
\* holds.  Outside quasi-elastic scattering the code is 0.
RecoilNucleonPdg(in) ==
    IF in.isQuasiElastic
    THEN [ok |-> in.struck \in Nucleons /\ in.isWeak,
          pdgc |-> IF in.isWeakCC THEN SwitchProtonNeutron(in.struck)
                   ELSE in.struck]
    ELSE [ok |-> TRUE, pdgc |-> 0]

\* (variant: a strange event is looked at before a charm event)
RecoilPdgStrangeFirst(in) ==
    IF in.isStrange THEN [ok |-> TRUE, pdgc |-> in.strangePdg]
    ELSE IF in.isCharm THEN [ok |-> TRUE, pdgc |-> in.charmPdg]
    ELSE RecoilNucleonPdg(in)

\* rpdgc: the charm hadron, else the strange hadron, else the recoil
\* nucleon.
RecoilPdg(in) ==
    IF in.isCharm THEN [ok |-> TRUE, pdgc |-> in.charmPdg]
    ELSE IF in.isStrange THEN [ok |-> TRUE, pdgc |-> in.strangePdg]
    ELSE RecoilNucleonPdg(in)

\* Exclusive tags, processes and struck nucleons of an accepted candidate.
\* A tag flagged charm or strange without a hadron has the code 0.
SelectWInputs ==
    { [isCharm |-> c[1], charmPdg |-> c[2],
       isStrange |-> st[1], strangePdg |-> st[2],
       isQuasiElastic |-> pr[1], isWeak |-> pr[2], isWeakCC |-> pr[3],
       struck |-> n] :
        c \in ({<<FALSE, 0>>, <<TRUE, 0>>} \cup
                  {<<TRUE, h>> : h \in CharmHadrons}),
        st \in ({<<FALSE, 0>>, <<TRUE, 0>>} \cup
                  {<<TRUE, h>> : h \in StrangeHadrons}),
        pr \in {<<TRUE, TRUE, TRUE>>, <<TRUE, TRUE, FALSE>>,
                <<TRUE, FALSE, FALSE>>, <<FALSE, TRUE, TRUE>>},
        n \in Nucleons }

\* The selection of W for an accepted candidate: rpdgc, assert(rpdgc),
\* the mass, the lock.
SelectW ==
    /\ unit.at = "accepted"
    /\ LET r == RecoilPdg(unit.in)
       IN IF r.ok /\ r.pdgc # 0
          THEN unit' = [unit EXCEPT !.at = "locked", !.rpdgc = r.pdgc,
                                    !.W = PdgMass(r.pdgc)]
          ELSE unit' = [unit EXCEPT !.at = "aborted"]
    /\ UNCHANGED <<callVars, conc>>

\* The recoil nucleon added to the record after the lock: its code is
\* that of Interaction::RecoilNucleonPdg whatever the tag.
AddRecoilNucleon ==
    /\ unit.at = "locked"
    /\ LET r == RecoilNucleonPdg(unit.in)
       IN IF r.ok
          THEN unit' = [unit EXCEPT !.at = "added", !.added = r.pdgc]
          ELSE unit' = [unit EXCEPT !.at = "aborted"]
    /\ UNCHANGED <<callVars, conc>>

InitSelectW ==
    /\ GeneratorInit
    /\ fGenerateUniformly
    /\ fXSecModel = "flat"
    /\ ~tgtIsNucleus
    /\ conc = ConcIdle
    /\ \E in \in SelectWInputs :
         unit = [at |-> "accepted", in |-> in, rpdgc |-> 0, W |-> 0,
                 added |-> 0]

NextSelectW == SelectW \/ AddRecoilNucleon

SpecSelectW == InitSelectW /\ [][NextSelectW]_vars

\* -------------------------------------------- AddTargetNucleusRemnant
\* Target nuclei of the record (A, Z, mass) and the daughters a nucleus can
\* have: protons, neutrons and a meson, with their 4-momenta.
MaxDaughters == 2
TargetNuclei == {[A |-> 12, Z |-> 6, Mass |-> 120], [A |-> 4, Z |-> 2, Mass |-> 40]}
DaughterP4s == {[Px |-> 0, Py |-> 0, Pz |-> -1, E |-> 9],
                [Px |-> 1, Py |-> -2, Pz |-> 3, E |-> 10]}
DaughterPdgs == Nucleons \cup {211}
Daughters == [pdgc : DaughterPdgs, p4 : DaughterP4s]
DaughterLists ==
    UNION { [1 .. n -> Daughters] : n \in 1 .. MaxDaughters }

\* (variant: every daughter takes a nucleon off the nucleus)
AAfterAnyDaughter(A, pdgc) == A - 1

\* if (is_p || is_n) A--;
AAfterDaughter(A, pdgc) == IF pdgc \in Nucleons THEN A - 1 ELSE A

\* if (is_p) Z--;
ZAfterDaughter(Z, pdgc) == IF pdgc = 2212 THEN Z - 1 ELSE Z

\* if (!have_nucleus) return;
RemnantNoNucleus ==
    /\ unit.at = "remnant"
    /\ ~unit.have_nucleus
    /\ unit' = [unit EXCEPT !.at = "returned"]
    /\ UNCHANGED <<callVars, conc>>

\* One pass of the loop over the daughters fd .. ld of the nucleus.
RemnantDaughter ==
    /\ unit.at = "remnant"
    /\ unit.have_nucleus
    /\ unit.id <= Len(unit.daughters)
    /\ LET particle == unit.daughters[unit.id]
       IN unit' = [unit EXCEPT
                     !.id = @ + 1,
                     !.A = AAfterDaughter(@, particle.pdgc),
                     !.Z = ZAfterDaughter(@, particle.pdgc),
                     !.Px = @ + particle.p4.Px,
                     !.Py = @ + particle.p4.Py,
                     !.Pz = @ + particle.p4.Pz,
                     !.E = @ + particle.p4.E]
    /\ UNCHANGED <<callVars, conc>>

\* After the loop: the signs, E = Mi - E, and the remnant is added.
RemnantAdd ==
    /\ unit.at = "remnant"
    /\ unit.have_nucleus
    /\ unit.id > Len(unit.daughters)
    /\ unit' = [unit EXCEPT
                  !.at = "returned",
                  !.added = Append(@,
                      [A |-> unit.A, Z |-> unit.Z,
                       status |-> "kIStStableFinalState",
                       mother |-> "TargetNucleus",
                       Px |-> -unit.Px, Py |-> -unit.Py, Pz |-> -unit.Pz,
                       E |-> unit.nucleus.Mass - unit.E])]
    /\ UNCHANGED <<callVars, conc>>

InitRemnant ==
    /\ GeneratorInit
    /\ fGenerateUniformly
    /\ fXSecModel = "flat"
    /\ ~tgtIsNucleus
    /\ conc = ConcIdle
    /\ \E have \in BOOLEAN, nucleus \in TargetNuclei, ds \in DaughterLists :
         /\ ~have => (nucleus.A = 4 /\ Len(ds) = 1)
         /\ unit = [at |-> "remnant", have_nucleus |-> have,
                    nucleus |-> nucleus, daughters |-> ds, id |-> 1,
                    A |-> nucleus.A, Z |-> nucleus.Z,
                    Px |-> 0, Py |-> 0, Pz |-> 0, E |-> 0, added |-> <<>>]

NextRemnant == RemnantNoNucleus \/ RemnantDaughter \/ RemnantAdd

SpecRemnant == InitRemnant /\ [][NextRemnant]_vars

\* ------------------------------------------- Interaction: copy and compare
\* Interaction objects: the four parts an Interaction owns by value, the
\* status bits of its TObject and the phase-space object, which is bound to
\* the Interaction that created it.
InitialStates == {"nu_mu + C12", "nu_mu + Fe56"}
ProcessInfos == {"QES-CC", "QES-NC"}
KinematicsVals == {"Q2 = 1", "Q2 = 2"}
ExclusiveTags == {"none", "charm Lambda_c+"}
BitSets == {{}, {"kISkipProcessChk", "kIAssumeFreeNucleon"}}
Interactions(owner) ==
    [fInitialState : InitialStates, fProcInfo : ProcessInfos,
     fKinematics : KinematicsVals, fExclusiveTag : ExclusiveTags,
     bits : BitSets, fKinePhSp : {owner}]

\* (variant: the exclusive tag is not copied)
CopyWithoutExclusiveTag(this, other) ==
    [this EXCEPT !.fInitialState = other.fInitialState,
                 !.fProcInfo = other.fProcInfo,
                 !.fKinematics = other.fKinematics]

\* Interaction::Copy: the four parts are copied into this object.
InteractionCopy(this, other) ==
    [this EXCEPT !.fInitialState = other.fInitialState,
                 !.fProcInfo = other.fProcInfo,
                 !.fKinematics = other.fKinematics,
                 !.fExclusiveTag = other.fExclusiveTag]

\* TObject() and Interaction::Init: a new object with default parts, no
\* bit set and a phase-space object of its own.
InteractionInit(owner) ==
    [fInitialState |-> "default", fProcInfo |-> "default",
     fKinematics |-> "default", fExclusiveTag |-> "default",
     bits |-> {}, fKinePhSp |-> owner]

\* Interaction::Compare and operator ==
Compare(this, other) ==
    /\ this.fInitialState = other.fInitialState
    /\ this.fProcInfo = other.fProcInfo
    /\ this.fExclusiveTag = other.fExclusiveTag

\* Interaction(const Interaction &)
CopyConstruct ==
    /\ unit.at = "two interactions"
    /\ unit' = [unit EXCEPT
                  !.at = "copied", !.how = "constructor",
                  !.b = InteractionCopy(InteractionInit("b"), unit.a)]
    /\ UNCHANGED <<callVars, conc>>

\* operator = and a direct call of Copy: b = a, b.Copy(a)
Assign ==
    /\ unit.at = "two interactions"
    /\ \E how \in {"operator=", "Copy"} :
         unit' = [unit EXCEPT !.at = "copied", !.how = how,
                              !.b = InteractionCopy(unit.b, unit.a)]
    /\ UNCHANGED <<callVars, conc>>

\* The kinematics of the copy are set to something else.
SetKinematics ==
    /\ unit.at = "copied"
    /\ \E k \in KinematicsVals \ {unit.b.fKinematics} :
         unit' = [unit EXCEPT !.at = "kinematics set", !.b.fKinematics = k]
    /\ UNCHANGED <<callVars, conc>>

InitCompare ==
    /\ GeneratorInit
    /\ fGenerateUniformly
    /\ fXSecModel = "flat"
    /\ ~tgtIsNucleus
    /\ conc = ConcIdle
    /\ \E a \in Interactions("a"), b \in Interactions("b") :
         unit = [at |-> "two interactions", how |-> "none",
                 a |-> a, b |-> b, b0 |-> b]

NextCompare == CopyConstruct \/ Assign \/ SetKinematics

SpecCompare == InitCompare /\ [][NextCompare]_vars

\* The call is over: event committed, iteration cap, no usable maximum,
\* or abort by the cross-section limit check.
Ended == pc \in {"Done", "IterCapFailure", "MaxXSecFailure", "Fatal"}

\* The grid search needs more layers than the lattice resolves.
LayerCut == pc = "PhaseB" /\ ilayer = MaxLayers

C2_TrialWithinBound ==
    (~fGenerateUniformly /\ trial.evaluated /\ fMaxXSecDiffTolerance = 0) =>
        trial.xsec <= maxXSecResult

\* -------------------------------------------------------------------- C3
\* C3 (as claimed): a trial is accepted iff its cross section is at least
\* the threshold t = bound * u.
C3_AcceptIffAtLeastThreshold ==
    (trial.evaluated /\ trial.outcome # "fatal") =>
        (trial.accept <=> trial.xsec * RndmDen >= trial.bound * trial.u)

\* C3 (amended): a trial is accepted iff its cross section is strictly
\* above the threshold t = bound * u; one equal to the threshold is rejected.
C3_AcceptIffAboveThreshold ==
    (trial.evaluated /\ trial.outcome # "fatal") =>
        /\ trial.accept <=> trial.xsec * RndmDen > trial.bound * trial.u
        /\ trial.outcome = "rejected" <=> ~trial.accept

C3_Witness ==
    /\ trial.evaluated
    /\ trial.xsec > 0
    /\ trial.xsec * RndmDen = trial.bound * trial.u
    /\ trial.outcome = "rejected"

C5_FailedCorrectionDiscarded ==
    /\ trial.corrected =>
         /\ tgtIsNucleus
         /\ fHitNucleonBindingMode = "OnShellWithCorrection"
         /\ trial.accept
         /\ trial.corr.sqrtS < LepMass + RecoilMass =>
              trial.corr.failed = "threshold"
         /\ ( /\ trial.corr.sqrtS >= LepMass + RecoilMass
              /\ LeptonMomentumSquared(trial.corr.sqrtS, trial.corr.dE2) < 0 )
              => trial.corr.failed = "momentum"
         /\ trial.corr.failed = "Q2" =>
              (trial.corr.Q2 < Q2Min \/ trial.corr.Q2 > Q2Max)
         /\ trial.corr.failed = "none" =>
              /\ trial.corr.Q2 >= Q2Min /\ trial.corr.Q2 <= Q2Max
              /\ trial.corr.sqrtS >= LepMass + RecoilMass
              /\ LeptonMomentumSquared(trial.corr.sqrtS, trial.corr.dE2) >= 0
         /\ trial.corr.failed # "none" <=> trial.outcome = "discarded"
    /\ trial.outcome = "discarded" =>
         /\ trial.corrected
         /\ pc \in {"Loop", "IterCapFailure"}
         /\ interaction.kine.FSLeptonP4 = "uncorrected"
         /\ interaction.kine.HadSystP4 = "uncorrected"
         /\ interaction.kine.Q2 \notin CorrectedQ2Vals
         /\ ~interaction.locked.set
         /\ evrec.particles = <<>>
         /\ ~evrec.diffXSec.set
         /\ ~evrec.hitNucleon.set
         /\ pauliIgnoreNext = 0
    /\ (pc = "Done" /\ trial.corrected) =>
         /\ interaction.locked.Q2 = trial.corr.Q2
         /\ interaction.locked.Q2 >= Q2Min /\ interaction.locked.Q2 <= Q2Max

C5_Witness ==
    /\ pc = "Loop"
    /\ trial.outcome = "discarded"
    /\ trial.corr.failed = "Q2"
    /\ trial.corr.Q2 = Q2Max + 1

\* -------------------------------------------------------------------- C6
\* C6: when no Phase A throw has CosTheta0Max > -1, ComputeMaxXSec returns
\* exactly 0 and Phase B makes no evaluation.
C6_NoUsableThrowGivesZero ==
    /\ (pc = "MaxXSec" /\ count.nUsableThrows = 0) =>
         /\ maxXSecResult = 0
         /\ count.nPhaseBEvals = 0
         /\ count.nLayers = 0
         /\ inuc = fMaxXSecNucleonThrows
    /\ pc = "PhaseB" => count.nUsableThrows > 0
    /\ count.nPhaseBEvals > 0 => count.nUsableThrows > 0

C6_Witness ==
    /\ pc = "MaxXSec"
    /\ count.nUsableThrows = 0
    /\ maxXSecResult = 0

\* -------------------------------------------------------------------- C7
\* C7: in rejection mode the maximum is obtained once per call, before the
\* loop samples its first nucleon, and every pass uses that same value for
\* the limit check and the threshold, also after a larger cross section.
C7_BoundObtainedOnce ==
    ~fGenerateUniformly =>
        /\ count.nMaxXSec = (IF pc = "Start" THEN 0 ELSE 1)
        /\ pc \in {"PhaseA", "PhaseB", "MaxXSec"} =>
             count.nPasses = 0 /\ count.nGenerateNucleon = 0
        /\ pc \in {"Loop", "Done", "IterCapFailure", "Fatal"} =>
             xsec_max = maxXSecResult
        /\ trial.evaluated => trial.bound = maxXSecResult

C7_Witness ==
    /\ ~fGenerateUniformly
    /\ count.nXSecEvals = 2
    /\ trial.xsec > trial.bound
    /\ trial.bound = maxXSecResult

\* -------------------------------------------------------------------- C8
\* C8: with a usable throw ComputeMaxXSec returns fSafetyFactor times the
\* largest value the evaluator returned on any grid point of any layer; the
\* running maximum never decreases from a layer to the next and the result
\* is not negative.
C8_SafetyFactorTimesGridMax ==
    /\ (pc = "MaxXSec" /\ count.nUsableThrows > 0) =>
         /\ maxXSecResult * SFDen = fSafetyFactor * count.gridMax
         /\ maxXSecResult >= 0
    /\ count.nLayers > 0 =>
         /\ this_nuc_xsec_max = count.gridMax
         /\ this_nuc_xsec_max >= last_layer_xsec_max

C8_Witness ==
    /\ pc = "MaxXSec"
    /\ count.nLayers = 3
    /\ this_nuc_xsec_max > last_layer_xsec_max
    /\ last_layer_xsec_max > 0

\* -------------------------------------------------------------------- C9
\* C9 (as claimed): a trial whose cross section is 0 is never accepted, in
\* rejection mode and in uniform mode alike.
C9_ZeroNeverAccepted ==
    (trial.evaluated /\ trial.xsec = 0) => ~trial.accept

\* ------------------------------------------------------------------- C10
\* C10: in uniform generation the maximum cross section is never asked for
\* and every evaluated trial with a positive cross section passes the
\* threshold test of its pass.
C10_UniformAcceptsPositive ==
    fGenerateUniformly =>
        /\ count.nMaxXSec = 0
        /\ count.nPhaseBEvals = 0
        /\ pc \notin {"PhaseA", "PhaseB", "MaxXSec", "MaxXSecFailure"}
        /\ (trial.evaluated /\ trial.xsec > 0 /\ trial.outcome # "fatal") =>
             trial.accept /\ trial.outcome \in {"accepted", "discarded"}

C10_Witness ==
    /\ fGenerateUniformly
    /\ trial.evaluated
    /\ trial.xsec > 0
    /\ trial.u > 0
    /\ trial.outcome = "accepted"

\* ------------------------------------------------------------------- C11
\* C11: SetIgnoreNext is called at most once in a call, and it has been
\* called exactly when the call ended with an accepted pass that ran the
\* correction (nuclear target, OnShellWithCorrection), passed all its
\* checks, and has a corrected recoil momentum below kF with the
\* uncorrected one at or above kF; never after a rejected or discarded
\* pass and never when the correction is not run.
C11_PauliOverrideOnlyOnAcceptedCorrection ==
    /\ pauliIgnoreNext \in {0, 1}
    /\ pauliIgnoreNext = 1 <=>
         /\ pc = "Done"
         /\ trial.outcome = "accepted"
         /\ trial.corrected
         /\ trial.corr.failed = "none"
         /\ trial.corr.pNfCorrected < FermiMomentum
         /\ trial.corr.pNfUncorrected >= FermiMomentum
    /\ (~tgtIsNucleus \/ fHitNucleonBindingMode # "OnShellWithCorrection")
         => pauliIgnoreNext = 0
    /\ trial.outcome \in {"skipped", "rejected", "discarded", "fatal"}
         => pauliIgnoreNext = 0

C11_Witness ==
    /\ pauliIgnoreNext = 1
    /\ count.nPasses = 2
    /\ trial.corr.pNfCorrected = FermiMomentum - 1
    /\ trial.corr.pNfUncorrected = FermiMomentum

\* ------------------------------------------------------------------- C12
\* The Interaction of the caller when it asks for the maximum: as built
\* upstream, with the three trust bits set.
InteractionAtMaxXSec ==
    [hitNuc |-> AtRest, hitNucPos |-> HitNucRadius, kine |-> NoKine,
     locked |-> [set |-> FALSE, Q2 |-> 0, W |-> 0, x |-> FALSE, y |-> FALSE,
                 n |-> 0, runningAtLock |-> FALSE, bitsAtLock |-> {}],
     bits |-> TrustBits]

\* C12: ComputeMaxXSec leaves the Interaction it is given as it was: hit
\* nucleon 4-momentum and position, kinematics and bits of the caller are
\* the same during and after the call, whatever is returned, and no private
\* copy is left when it returns.
C12_EstimatorLeavesInteraction ==
    /\ pc \in {"PhaseA", "PhaseB", "MaxXSec"} =>
         interaction = InteractionAtMaxXSec
    /\ pc = "MaxXSec" => count.nLiveCopies = 0
    /\ pc = "PhaseB" => count.nLiveCopies = 1

C12_Witness ==
    /\ pc = "MaxXSec"
    /\ maxXSecResult > 0
    /\ count.nLayers >= 2
    /\ fNuclModel # AtRest
    /\ interaction.hitNuc = AtRest
    /\ interaction.hitNucPos = HitNucRadius

\* ------------------------------------------------------------------- C13
\* C13: when the call ends at the iteration cap, and after every pass that
\* discards its candidate (the low-angle cut included), nothing is
\* committed: no particle in the record, no locked kinematic variable, no
\* recorded cross section, the hit-nucleon entry not overwritten, the Pauli
\* override not set.
C13_FailureCommitsNothing ==
    ( \/ pc = "IterCapFailure"
      \/ trial.outcome = "discarded"
      \/ (trial.corrected /\ procIsEM /\ trial.corr.theta < fMinAngleEM) )
    =>
    /\ evrec.particles = <<>>
    /\ ~interaction.locked.set
    /\ ~evrec.diffXSec.set
    /\ ~evrec.hitNucleon.set
    /\ pauliIgnoreNext = 0
    /\ pc # "Done"

C13_Witness ==
    /\ pc = "IterCapFailure"
    /\ trial.outcome = "discarded"
    /\ trial.corr.failed = "angle"
    /\ trial.corr.theta > 0
    /\ evrec.particles = <<>>

\* ------------------------------------------------------------------- C14
\* C14 (as claimed): of two interleaved calls on one generator each binds
\* into its Interaction the nucleon it sampled itself in that pass,
\* evaluates with the cross-section model of its own thread, and stores its
\* own removal energy.
C14_CallsUseOwnState ==
    conc.on =>
      \A c \in Calls :
        LET k == conc.call[c]
        IN /\ k.pc \in {"Evaluate", "Store", "Done"} =>
                k.hitNuc = BindHitNucleon(k.sampled, fHitNucleonBindingMode)
           /\ k.pc \in {"Store", "Done"} =>
                k.usedModel = ThreadXSecModel(c)
           /\ k.pc = "Done" => k.storedEb = k.sampled.E

\* ------------------------------------------------------------------- C15
\* C15: in a call Q2, W, x and y are locked at most once; they are locked,
\* all four together and once, exactly when the call returns normally, not
\* when it fails, and after a normal return no running value is left.
C15_LockedOnceOnReturn ==
    /\ interaction.locked.n <= 1
    /\ interaction.locked.set <=> pc = "Done"
    /\ pc = "Done" =>
         /\ interaction.locked.n = 1
         /\ interaction.locked.x /\ interaction.locked.y
         /\ interaction.locked.W = RecoilMass
         /\ interaction.locked.Q2 > 0
         /\ ~interaction.kine.running
         /\ interaction.kine.Q2 = 0
    /\ pc \in {"IterCapFailure", "MaxXSecFailure", "Fatal"} =>
         /\ interaction.locked.n = 0
         /\ ~interaction.locked.x /\ ~interaction.locked.y

C15_Witness ==
    /\ pc = "Done"
    /\ count.nPasses = 2
    /\ interaction.locked.n = 1
    /\ ~interaction.kine.running

\* ------------------------------------------------------------------- C16
\* C16 (as claimed): on acceptance the running values are cleared before
\* Q2, W, x and y are locked.
C16_ClearedBeforeLock ==
    interaction.locked.set => ~interaction.locked.runningAtLock

\* C16 (amended): on acceptance Q2, W, x and y are locked while the running
\* values are still there, and the running values are cleared after that.
C16_LockedBeforeClear ==
    interaction.locked.set =>
        /\ interaction.locked.runningAtLock
        /\ ~interaction.kine.running
        /\ interaction.locked.Q2 =
             (IF trial.corrected THEN trial.corr.Q2
              ELSE TrialQ2(trial.costheta))

C16_Witness ==
    /\ pc = "Done"
    /\ interaction.locked.set
    /\ interaction.locked.runningAtLock
    /\ trial.corrected
    /\ interaction.locked.Q2 = Q2Max

\* ------------------------------------------------------------------- C17
\* C17 (as claimed): on a normal return the recorded differential cross
\* section (phase space kPSQELEvGen) is the one of the kinematics the event
\* is produced with, i.e. of the hit nucleon as the Interaction holds it at
\* the return and of the accepted angles, and it is the value evaluated in
\* the accepted pass, also when the correction ran after the evaluation.
C17_RecordedXSecOfProducedKinematics ==
    pc = "Done" =>
        /\ evrec.diffXSec.set
        /\ evrec.diffXSec.ps = "kPSQELEvGen"
        /\ evrec.diffXSec.xsec = trial.xsec
        /\ evrec.diffXSec.xsec =
             ComputeFullQELPXSec(fXSecModel, interaction.hitNuc,
                                 trial.costheta, trial.phi)

\* ------------------------------------------------------------------- C19
\* C19: the grid search scans its layers in order, N_theta x N_phi
\* evaluations each; no layer before the last one scanned met the cut
\* (this / last - 1) < 0.2 * (fSafetyFactor - 1) with a predecessor, and the
\* search ends at the first layer that does, or with layer max_n_layers:
\* between 2 and max_n_layers layers, 200 to 10,000 evaluations.
C19_LayersUntilCutOrCap ==
    /\ pc = "PhaseB" =>
         /\ count.nLayers = ilayer
         /\ ilayer < max_n_layers
         /\ count.nPhaseBEvals = N_theta * N_phi * ilayer
         /\ ilayer >= 2 =>
              ~ImprovementBelowCut(this_nuc_xsec_max, last_layer_xsec_max)
    /\ (pc = "MaxXSec" /\ count.nLayers > 0) =>
         /\ count.nLayers = ilayer + 1
         /\ count.nLayers >= 2
         /\ count.nLayers <= max_n_layers
         /\ count.nPhaseBEvals = N_theta * N_phi * count.nLayers
         /\ count.nPhaseBEvals >= 200
         /\ count.nPhaseBEvals <= 10000
         /\ \/ ImprovementBelowCut(this_nuc_xsec_max, last_layer_xsec_max)
            \/ count.nLayers = max_n_layers

\* The search ended by the cut, before the cap on the layers.
C19_Witness ==
    /\ pc = "MaxXSec"
    /\ count.nLayers >= 2
    /\ count.nLayers < max_n_layers
    /\ ImprovementBelowCut(this_nuc_xsec_max, last_layer_xsec_max)

\* The search ended by the cap: the cut was never met in 100 layers.
CapOnLayersReached ==
    /\ pc = "MaxXSec"
    /\ count.nLayers = max_n_layers
    /\ ~ImprovementBelowCut(this_nuc_xsec_max, last_layer_xsec_max)

\* ------------------------------------------------------------------- C20
\* A layer within the resolution of the lattice has just been scanned.
LayerScanned ==
    /\ pc = "PhaseB"
    /\ ilayer < MaxLayers
    /\ count'.nLayers = count.nLayers + 1

CosWidth(w) == w.costh_range_max - w.costh_range_min
PhiWidth(w) == w.phi_range_max - w.phi_range_min

\* The next window is [b - s, b + s] in both angles, b the point of the
\* largest value of all the layers scanned so far and s the step of the
\* layer just scanned; it is a fifth as wide as the window just scanned.
WindowAroundBestSoFar ==
    /\ this_nuc_xsec_max' = count'.gridMax
    /\ ComputeFullQELPXSec(fXSecModel,
                           BindHitNucleon(fNuclModel, fHitNucleonBindingMode),
                           at_xsec_max'.costh, at_xsec_max'.phi)
         = count'.gridMax
    /\ N_theta * (at_xsec_max'.costh - window'.costh_range_min)
         = CosWidth(window)
    /\ N_theta * (window'.costh_range_max - at_xsec_max'.costh)
         = CosWidth(window)
    /\ N_phi * (at_xsec_max'.phi - window'.phi_range_min) = PhiWidth(window)
    /\ N_phi * (window'.phi_range_max - at_xsec_max'.phi) = PhiWidth(window)
    /\ 5 * CosWidth(window') = CosWidth(window)
    /\ 5 * PhiWidth(window') = PhiWidth(window)

\* C20 (as claimed): after every layer the next window is [b - s, b + s]
\* around the best point so far, a fifth as wide as the one just scanned,
\* and strictly narrower than it in cos-theta and in phi.
C20_WindowStrictlyShrinks ==
    [][LayerScanned =>
         /\ WindowAroundBestSoFar
         /\ CosWidth(window') < CosWidth(window)
         /\ PhiWidth(window') < PhiWidth(window)]_vars

\* C20 (amended): after every layer the next window is [b - s, b + s]
\* around the best point so far and a fifth as wide as the one just
\* scanned; it is strictly narrower in phi, and in cos-theta when the window
\* just scanned has a positive width, while a cos-theta range of width zero
\* stays of width zero.
C20_WindowAFifthAroundBest ==
    [][LayerScanned =>
         /\ WindowAroundBestSoFar
         /\ PhiWidth(window') < PhiWidth(window)
         /\ CosWidth(window) > 0 => CosWidth(window') < CosWidth(window)
         /\ CosWidth(window) = 0 => CosWidth(window') = 0]_vars

\* A second layer has been scanned in a window of positive width around a
\* best point that the first layer found.
C20_Witness ==
    /\ pc \in {"PhaseB", "MaxXSec"}
    /\ count.nLayers = 2
    /\ CosWidth(window) > 0
    /\ PhiWidth(window) > 0
    /\ this_nuc_xsec_max = last_layer_xsec_max
    /\ this_nuc_xsec_max > 0

\* The grid search runs on a cos-theta range of width zero.
CollapsedCosWindowScanned ==
    /\ pc \in {"PhaseB", "MaxXSec"}
    /\ count.nLayers >= 1
    /\ CosWidth(window) = 0

\* ------------------------------------------------------------------- C21
\* C21: the loop over thrown nucleons makes fMaxXSecNucleonThrows throws,
\* all at radius 0, before anything else happens; the nucleon fixed for
\* the grid search has the largest momentum and the smallest removal energy
\* of the throws with a window above -1, each extreme on its own, and the
\* throws with a degenerate window count for neither.
C21_ExtremalNucleonOfUsableThrows ==
    /\ pc = "PhaseA" =>
         /\ count.nThrows = inuc
         /\ inuc <= fMaxXSecNucleonThrows
         /\ count.nLayers = 0
    /\ (pc = "PhaseB" \/ (pc = "MaxXSec" /\ count.nThrows > 0)) =>
         /\ count.nThrows = fMaxXSecNucleonThrows
         /\ Cardinality(count.usable) + Cardinality(count.degenerate)
              <= fMaxXSecNucleonThrows
         /\ count.radii = {0}
    /\ pc = "PhaseB" =>
         /\ count.usable # {}
         /\ fNuclModel.p = SetMax({n.p : n \in count.usable})
         /\ fNuclModel.E = SetMin({n.E : n \in count.usable})

\* The two extremes come from different throws: no usable throw had both.
C21_Witness ==
    /\ pc = "PhaseB"
    /\ fNuclModel \notin count.usable
    /\ Cardinality(count.usable) = 2

\* A degenerate throw of larger momentum than every usable one is left out.
DegenerateThrowLeftOut ==
    /\ pc = "PhaseB"
    /\ \E n \in count.degenerate : n.p > fNuclModel.p

\* ------------------------------------------------------------------- C22
\* The correction of the latest pass got as far as the low-angle cut.
ReachedAngleCut ==
    trial.corrected /\ trial.corr.failed \notin {"threshold", "momentum"}

LowAngleKeptForOtherProcess ==
    /\ pc = "Done"
    /\ trial.corrected
    /\ ~procIsEM
    /\ trial.corr.theta < fMinAngleEM

\* ------------------------------------------------------------------- C23
\* C23: in the loop, for a target that is not a nucleus every pass leaves
\* the nuclear model at rest and unbound and GenerateNucleon is never
\* called; for a nucleus every pass calls it once, at the radius stored in
\* the interaction before the loop.
C23_NucleonPerPass ==
    (pc \in {"Loop", "Done", "IterCapFailure", "Fatal"}) =>
      /\ ~tgtIsNucleus =>
           /\ count.nGenerateNucleon = 0
           /\ count.radii = {}
           /\ count.nPasses > 0 =>
                /\ fNuclModel = AtRest
                /\ interaction.hitNuc.p = 0
                /\ fEb = 0
      /\ tgtIsNucleus =>
           /\ count.nGenerateNucleon = count.nPasses
           /\ count.nPasses > 0 =>
                /\ count.radii = {interaction.hitNucPos}
                /\ fNuclModel \in NucleonStates

\* Two passes on a nucleus: two samplings, both at the stored radius.
C23_Witness ==
    /\ tgtIsNucleus
    /\ count.nPasses = 2
    /\ count.nGenerateNucleon = 2
    /\ count.radii = {HitNucRadius}

\* Two passes on a free nucleon without any sampling.
FreeNucleonNeverSampled ==
    /\ ~tgtIsNucleus
    /\ count.nPasses = 2
    /\ fNuclModel = AtRest

\* ------------------------------------------------------------------- C24
\* C24: the locked W is the mass of one particle: the charm hadron of the
\* tag for a charm event, otherwise the strange hadron for a strange
\* event, otherwise the recoil nucleon; the code of that particle is not 0.
C24_WFromExclusiveTag ==
    unit.at \in {"locked", "added"} =>
      LET in == unit.in
      IN /\ unit.rpdgc # 0
         /\ unit.W = PdgMass(unit.rpdgc)
         /\ in.isCharm => unit.rpdgc = in.charmPdg
         /\ (~in.isCharm /\ in.isStrange) => unit.rpdgc = in.strangePdg
         /\ (~in.isCharm /\ ~in.isStrange) =>
              /\ in.isQuasiElastic
              /\ unit.rpdgc =
                   (IF in.isWeakCC THEN SwitchProtonNeutron(in.struck)
                    ELSE in.struck)

\* A candidate tagged charm and strange at once: W is the charm mass.
C24_Witness ==
    /\ unit.at = "locked"
    /\ unit.in.isCharm
    /\ unit.in.isStrange
    /\ unit.in.strangePdg # 0
    /\ unit.W = PdgMass(unit.in.charmPdg)

\* A tag without a hadron: the assertion on the code stops the call.
NoHadronInTagAborts ==
    /\ unit.at = "aborted"
    /\ unit.in.isCharm
    /\ unit.in.charmPdg = 0

\* ------------------------------------------------------------------- C25
\* C25: on a normal return the record has got, in this order, one
\* final-state lepton (stable, mother the probe), one recoil nucleon (in
\* the nucleus for a nuclear target, stable otherwise, mother the hit
\* nucleon) and then a remnant nucleus exactly when there is a target
\* nucleus; the hit-nucleon entry holds the struck nucleon of the
\* interaction and the removal energy of the accepted pass.  Before that
\* the record has got nothing.
C25_ParticlesAppendedInOrder ==
    /\ pc = "Done" =>
         /\ Len(evrec.particles) = (IF tgtIsNucleus THEN 3 ELSE 2)
         /\ evrec.particles[1].pdg = "FSPrimLepton"
         /\ evrec.particles[1].status = "kIStStableFinalState"
         /\ evrec.particles[1].mother = "Probe"
         /\ evrec.particles[1].p4 = interaction.kine.FSLeptonP4
         /\ evrec.particles[2].pdg = "RecoilNucleon"
         /\ evrec.particles[2].status =
              (IF tgtIsNucleus THEN "kIStHadronInTheNucleus"
               ELSE "kIStStableFinalState")
         /\ evrec.particles[2].mother = "HitNucleon"
         /\ evrec.particles[2].p4 = interaction.kine.HadSystP4
         /\ tgtIsNucleus =>
              /\ evrec.particles[3].pdg = "Remnant"
              /\ evrec.particles[3].mother = "TargetNucleus"
         /\ evrec.hitNucleon.set
         /\ evrec.hitNucleon.p4 = interaction.hitNuc
         /\ evrec.hitNucleon.removalEnergy = fEb
         /\ trial.pass = iter
         /\ trial.outcome = "accepted"
    /\ pc # "Done" => evrec.particles = <<>>

\* A corrected event on a nucleus: three particles, and the hit nucleon
\* stored off shell with the removal energy of the rebinding.
C25_Witness ==
    /\ pc = "Done"
    /\ trial.corrected
    /\ Len(evrec.particles) = 3
    /\ evrec.particles[2].status = "kIStHadronInTheNucleus"
    /\ evrec.hitNucleon.removalEnergy > 0
    /\ evrec.particles[1].p4 = "corrected"

\* An event on a free nucleon: two stable particles and no remnant.
FreeNucleonEventWithoutRemnant ==
    /\ pc = "Done"
    /\ ~tgtIsNucleus
    /\ Len(evrec.particles) = 2
    /\ evrec.particles[2].status = "kIStStableFinalState"

\* ------------------------------------------------------------------- C26
RECURSIVE SumSeq(_)
SumSeq(xs) == IF xs = <<>> THEN 0 ELSE Head(xs) + SumSeq(Tail(xs))

\* C26: without a target nucleus nothing is added; otherwise one remnant
\* is added, with A less by the proton and neutron daughters, Z less by the
\* proton daughters, and the 4-momentum that makes remnant plus daughters
\* equal to the nucleus at rest, (0, 0, 0, mass); a daughter that is not a
\* nucleon counts for the 4-momentum only.
C26_RemnantBalancesDaughters ==
    unit.at = "returned" =>
      LET ds == unit.daughters
          n == Len(ds)
          nP == Cardinality({i \in 1 .. n : ds[i].pdgc = 2212})
          nN == Cardinality({i \in 1 .. n : ds[i].pdgc = 2112})
          sumPx == SumSeq([i \in 1 .. n |-> ds[i].p4.Px])
          sumPy == SumSeq([i \in 1 .. n |-> ds[i].p4.Py])
          sumPz == SumSeq([i \in 1 .. n |-> ds[i].p4.Pz])
          sumE == SumSeq([i \in 1 .. n |-> ds[i].p4.E])
      IN /\ ~unit.have_nucleus => unit.added = <<>>
         /\ unit.have_nucleus =>
              /\ Len(unit.added) = 1
              /\ unit.added[1].A = unit.nucleus.A - (nP + nN)
              /\ unit.added[1].Z = unit.nucleus.Z - nP
              /\ unit.added[1].Px + sumPx = 0
              /\ unit.added[1].Py + sumPy = 0
              /\ unit.added[1].Pz + sumPz = 0
              /\ unit.added[1].E + sumE = unit.nucleus.Mass

\* A remnant for a nucleus with a nucleon and a meson among its daughters.
C26_Witness ==
    /\ unit.at = "returned"
    /\ unit.have_nucleus
    /\ Len(unit.daughters) = 2
    /\ unit.daughters[1].pdgc = 2212
    /\ unit.daughters[2].pdgc = 211
    /\ Len(unit.added) = 1
    /\ unit.added[1].A = unit.nucleus.A - 1

\* ------------------------------------------------------------------- C27
\* C27: the three trust bits are set on the caller's interaction from the
\* entry of the call on and through every pass of the loop; the accepted
\* pass clears them, and they are clear when the kinematics are locked;
\* when the call ends at the iteration cap they are still set.
C27_TrustBitsUntilAcceptance ==
    /\ pc \in {"Loop", "PhaseA", "PhaseB", "MaxXSec"} =>
         TrustBits \subseteq interaction.bits
    /\ pc = "IterCapFailure" => TrustBits \subseteq interaction.bits
    /\ pc = "Done" =>
         /\ interaction.bits \cap TrustBits = {}
         /\ interaction.locked.set
         /\ interaction.locked.bitsAtLock \cap TrustBits = {}
    /\ interaction.locked.set => pc = "Done"

\* The call gave up after kRjMaxIterations passes with the bits still set.
C27_Witness ==
    /\ pc = "IterCapFailure"
    /\ count.nPasses = kRjMaxIterations
    /\ TrustBits \subseteq interaction.bits
    /\ evrec.kKineGenErr

\* An event accepted in the second pass: bits set after the first pass
\* are clear at the return.
BitsClearedOnAcceptance ==
    /\ pc = "Done"
    /\ trial.pass = 2
    /\ interaction.bits \cap TrustBits = {}

\* ------------------------------------------------------------------- C28
\* C28: the windows of the grid search are not cut at the physical range.
\* The first window lies in [-1, 1] x [0, 2 pi]; when the best point so
\* far is on the lower edge of the window just scanned, in cos-theta or in
\* phi, the next window starts one grid step below that edge, wherever
\* that is, and its first grid point is evaluated there.
C28_WindowsNotClamped ==
    [][LayerScanned =>
         /\ ilayer = 0 =>
              /\ window.costh_range_min = -CosOne
              /\ window.costh_range_max <= CosOne
              /\ window.phi_range_min = 0
              /\ window.phi_range_max = TwoPi
         /\ at_xsec_max'.phi = window.phi_range_min =>
              /\ N_phi * (window.phi_range_min - window'.phi_range_min)
                   = PhiWidth(window)
              /\ window'.phi_range_min < window.phi_range_min
         /\ at_xsec_max'.costh = window.costh_range_min =>
              /\ N_theta * (window.costh_range_min - window'.costh_range_min)
                   = CosWidth(window)
              /\ window'.costh_range_min <= window.costh_range_min]_vars

\* The bound returned is the safety factor times a value the evaluator
\* returned at phi < 0, in the second layer, larger than every value of
\* the first layer.
C28_Witness ==
    /\ pc = "MaxXSec"
    /\ count.nLayers = 2
    /\ at_xsec_max.phi < 0
    /\ this_nuc_xsec_max > last_layer_xsec_max
    /\ this_nuc_xsec_max =
         ComputeFullQELPXSec(fXSecModel, fNuclModel,
                             at_xsec_max.costh, at_xsec_max.phi)
    /\ maxXSecResult = ApplySafetyFactor(this_nuc_xsec_max)

\* The point of the maximum that determines the bound has cos-theta < -1.
BoundFromCosBelowMinusOne ==
    /\ pc = "MaxXSec"
    /\ count.nLayers >= 2
    /\ at_xsec_max.costh < -CosOne
    /\ this_nuc_xsec_max > last_layer_xsec_max

\* ------------------------------------------------------------------- C29
\* C29: an Interaction made from another by the copy constructor, by
\* operator = or by Copy compares equal to it, in both directions, and
\* still does after its kinematics alone are changed; the copy has the
\* kinematics of the original, but its bits are those it had (none for a
\* constructed one) and its phase-space object is its own.
C29_CopyComparesEqual ==
    /\ unit.at \in {"copied", "kinematics set"} =>
         /\ Compare(unit.b, unit.a)
         /\ Compare(unit.a, unit.b)
         /\ unit.b.fKinePhSp = "b"
         /\ unit.a.fKinePhSp = "a"
         /\ unit.b.bits =
              (IF unit.how = "constructor" THEN {} ELSE unit.b0.bits)
    /\ unit.at = "copied" => unit.b.fKinematics = unit.a.fKinematics
    /\ unit.at = "kinematics set" =>
         unit.b.fKinematics # unit.a.fKinematics

\* An assigned copy of an interaction with another exclusive tag and other
\* bits: equal to the original, the kinematics changed, the bits its own.
C29_Witness ==
    /\ unit.at = "kinematics set"
    /\ unit.how = "operator="
    /\ unit.b0.fExclusiveTag # unit.a.fExclusiveTag
    /\ unit.b.bits # unit.a.bits
    /\ unit.b.fKinematics # unit.a.fKinematics
    /\ Compare(unit.b, unit.a)

\* ------------------------------------------- HadronTensorPool
\* The <tensor> entries of the selected tensor table, in document order.
\* Each entry carries the pdg attribute of its <nuclide>, its type and
\* calc attributes and the contents of its <file> children.
MaxTensorEntries == 2
PdgStrs == {"1000060120", "carbon"}
TypeStrs == {"MEC_FullAll", "QE_Full"}
CalcStrs == {"table", "formula"}
FileLists == {<<>>, <<"a.dat">>, <<"missing.dat">>, <<"a.dat", "b.dat">>}
TensorEntries ==
    [pdg : PdgStrs, type : TypeStrs, calc : CalcStrs, files : FileLists]

\* The data paths of the table and the files that exist below them.
fDataPaths == <<"data1", "data2">>
FilesOnDisk == {<<"data2", "a.dat">>, <<"data1", "b.dat">>}
EmptyString == <<>>

\* std::atoi: the leading digits of the string, 0 when there are none.
Atoi(str) == CASE str = "1000060120" -> 1000060120
               [] OTHER -> 0

\* string_to_tensor_type: the four known names; any other string clears
\* the ok flag.
StringToTensorType(str, ok) ==
    CASE str = "MEC_FullAll" -> [type |-> "kHT_MEC_FullAll", ok |-> ok]
      [] str = "MEC_Fullpn" -> [type |-> "kHT_MEC_Fullpn", ok |-> ok]
      [] str = "MEC_DeltaAll" -> [type |-> "kHT_MEC_DeltaAll", ok |-> ok]
      [] str = "MEC_Deltapn" -> [type |-> "kHT_MEC_Deltapn", ok |-> ok]
      [] OTHER -> [type |-> "kHT_Undefined", ok |-> FALSE]

file_exists(full_name) == full_name \in FilesOnDisk

\* FindTensorTableFile: the first data path under which the file exists;
\* without one the ok flag is cleared and the empty string returned.
RECURSIVE FindFrom(_, _, _)
FindFrom(p, basename, ok) ==
    IF p > Len(fDataPaths)
    THEN [full_name |-> EmptyString, ok |-> FALSE]
    ELSE IF file_exists(<<fDataPaths[p], basename>>)
         THEN [full_name |-> <<fDataPaths[p], basename>>, ok |-> ok]
         ELSE FindFrom(p + 1, basename, ok)

FindTensorTableFile(basename, ok) == FindFrom(1, basename, ok)

\* fTensors: a map from (nuclide, type) to the tensor stored for it.
TensorIds ==
    {Atoi(str) : str \in PdgStrs}
        \X {StringToTensorType(str, TRUE).type : str \in TypeStrs}
NoTensor == [stored |-> FALSE]
EmptyPool == [id \in TensorIds |-> NoTensor]

\* new TabulatedValenciaHadronTensor(full_file_name)
NewTensor(full_file_name) == [stored |-> TRUE, file |-> full_file_name]

\* The <file> loop of one <tensor> entry: each <file> child sets the flag,
\* looks the file up and stores a tensor unless the key is taken.
RECURSIVE FileLoop(_, _, _, _)
FileLoop(files, tensor_id, fTensors, tensor_ok) ==
    IF files = <<>>
    THEN [fTensors |-> fTensors, tensor_ok |-> tensor_ok]
    ELSE LET found == FindTensorTableFile(Head(files), TRUE)
         IN IF fTensors[tensor_id] = NoTensor
            THEN FileLoop(Tail(files), tensor_id,
                          [fTensors EXCEPT
                             ![tensor_id] = NewTensor(found.full_name)],
                          found.ok)
            ELSE FileLoop(Tail(files), tensor_id, fTensors, FALSE)

\* The body of the <tensor> loop for one entry.
TensorEntry(entry, fTensors) ==
    LET t == StringToTensorType(entry.type, TRUE)
    IN IF t.ok /\ entry.calc = "table"
       THEN FileLoop(entry.files, <<Atoi(entry.pdg), t.type>>,
                     fTensors, FALSE)
       ELSE [fTensors |-> fTensors, tensor_ok |-> FALSE]

\* HadronTensorPool::GetTensor
GetTensor(fTensors, tensor_pdg, type) ==
    IF fTensors[<<tensor_pdg, type>>] = NoTensor
    THEN "NULL"
    ELSE fTensors[<<tensor_pdg, type>>]

\* ParseXMLConfig, one pass of the <tensor> loop: the entry is processed
\* and, when its flag ends up cleared, reported as ignored.
ParseTensor ==
    /\ unit.at = "parsing"
    /\ LET entry == unit.entries[unit.next]
           r == TensorEntry(entry, unit.fTensors)
       IN unit' = [unit EXCEPT
                     !.at = IF unit.next = Len(unit.entries)
                            THEN "parsed" ELSE "parsing",
                     !.next = @ + 1,
                     !.fTensors = r.fTensors,
                     !.reports = Append(@,
                         [entry |-> entry, ignored |-> ~r.tensor_ok,
                          before |-> unit.fTensors,
                          after |-> r.fTensors])]
    /\ UNCHANGED <<callVars, conc>>

\* A caller asks the pool for a tensor once the configuration is loaded.
AskTensor ==
    /\ unit.at = "parsed"
    /\ \E id \in TensorIds :
         unit' = [unit EXCEPT
                    !.at = "asked", !.asked = id,
                    !.got = GetTensor(unit.fTensors, id[1], id[2])]
    /\ UNCHANGED <<callVars, conc>>

InitPool ==
    /\ GeneratorInit
    /\ fGenerateUniformly
    /\ fXSecModel = "flat"
    /\ ~tgtIsNucleus
    /\ conc = ConcIdle
    /\ \E entries \in [1 .. MaxTensorEntries -> TensorEntries] :
         unit = [at |-> "parsing", entries |-> entries, next |-> 1,
                 fTensors |-> EmptyPool, reports |-> <<>>,
                 asked |-> <<>>, got |-> "NULL"]

NextPool == ParseTensor \/ AskTensor

SpecPool == InitPool /\ [][NextPool]_vars

\* C30: a <tensor> entry reported as ignored adds no tensor to the pool
\* and leaves the stored tensors unchanged, so a key whose only entries
\* were ignored has no tensor (GetTensor returns NULL for it).
C30_IgnoredEntryAddsNothing ==
    /\ \A i \in 1 .. Len(unit.reports) :
         unit.reports[i].ignored =>
             unit.reports[i].after = unit.reports[i].before
    /\ unit.at = "asked" =>
         ((\A i \in 1 .. Len(unit.reports) :
              LET e == unit.reports[i].entry
              IN <<Atoi(e.pdg), StringToTensorType(e.type, TRUE).type>>
                     = unit.asked
                 => unit.reports[i].ignored)
          => unit.got = "NULL")

====
